---------------------------- MODULE Spec2Model ----------------------------
(***************************************************************************)
(* The lineage clean-up pipeline of dag_om.py (the workflow variant, run   *)
(* as four Airflow tasks that exchange artifacts through /tmp and a GCS    *)
(* bucket) and of deletarlinhagem.py (the local-file variant, four calls   *)
(* at module level).                                                       *)
(*                                                                         *)
(* A JSON file is modelled as an optional value: <<>> while the file does  *)
(* not exist, <<content>> once it is written.  The HTTP server is the      *)
(* environment: every response is chosen with \E when the request is made. *)
(* `resultados` is the local list of the function that is running (both    *)
(* extract_and_save_lineage and delete_lineage call theirs `resultados`).  *)
(* The *_fully_qualified_name fields of a deletion result are audit text   *)
(* copied from the input; they decide nothing and are left out.            *)
(*                                                                         *)
(* SpecCollect, SpecExtract, SpecDelete and SpecRerun explore one stage    *)
(* each over all its bounded inputs; Spec runs the four stages under the   *)
(* scheduler (the task chain and the retries of dag_om.py, the four calls  *)
(* of deletarlinhagem.py), each task of the workflow variant on a worker   *)
(* of the scheduler's choice.  Within one run the catalog holds one        *)
(* lineage graph, and lists a schema and a table once.                     *)
(***************************************************************************)
EXTENDS Integers, Sequences, FiniteSets, TLC

VARIABLES
    variant,                  \* "dag" (dag_om.py) or "local" (deletarlinhagem.py)
    status,                   \* per stage: "none", "running", "up_for_retry", "success", "failed"
    tries,                    \* failed attempts of the stage that runs
    stage,                    \* the function that runs (or ran last)
    pc,                       \* its position: "start", ..., "done" or "failed"
    worker,                   \* the machine whose file system the function sees
    disk,                     \* per worker: the local JSON files
    gcs,                      \* the objects of bucket-om
    data,                     \* delete_lineage: the list loaded from the file
    pos,                      \* delete_lineage: <<item, "down"|"up", edge>>
    resultados,               \* the running function's result list
    processed_lineage_pairs,  \* dag_om.py:293, a module-level set
    calls,                    \* DELETE requests sent by this invocation
    prevCalls,                \* DELETE requests sent by the previous invocation
    lastResp,                 \* the server's answer to the latest request
    invocation,               \* how many times delete_lineage was entered
    lineage,                  \* the graph the server holds for a lineage lookup
    files,                    \* extract_and_save_lineage: the table files to read
    fileIdx,                  \* extract_and_save_lineage: the file being read
    dados_json,               \* extract_and_save_lineage: the records of that file
    itemIdx,                  \* extract_and_save_lineage: the record being processed
    fetches,                  \* lineage lookups made: GET /lineage/table/{id}
    after,                    \* collectors: the paging cursor, NoCursor for None
    result,                   \* collectors: `result` / `response_data`
    databaseSchema_names,     \* create_table_files: the schema list it loaded
    schemaIdx,                \* create_table_files: the schema being paginated
    served,                   \* the pages the server sent in the running page loop
    requests                  \* listing requests made: [url, after]

runVars == <<variant, status, tries>>
storeVars == <<disk, gcs>>
deleteVars == <<data, pos, processed_lineage_pairs, calls, prevCalls, invocation>>
extractVars == <<lineage, files, fileIdx, dados_json, itemIdx, fetches>>
collectVars == <<after, result, databaseSchema_names, schemaIdx, served, requests>>
vars == <<variant, status, tries, stage, pc, worker, disk, gcs, data, pos, resultados,
          processed_lineage_pairs, calls, prevCalls, lastResp, invocation,
          lineage, files, fileIdx, dados_json, itemIdx, fetches,
          after, result, databaseSchema_names, schemaIdx, served, requests>>

---------------------------------------------------------------------------
(* Bounds of the model *)

MaxItems == 2        \* filter results in the stage-3 artifact
MaxEdges == 2        \* lineage edges in the stage-3 artifact, all items together
MaxInvocations == 2  \* entries into delete_lineage in SpecRerun
MaxPages == 2        \* pages the server splits one listing into
MaxNodes == 2        \* nodes of a lineage graph
MaxGraphEdges == 2   \* edges of a lineage graph, both directions together

---------------------------------------------------------------------------
(* Values *)

Variants == {"dag", "local"}
Workers == {"w1", "w2"}
SchemaNames == {"s1", "s2"}

NoId == ""                  \* None, a missing key or '': falsy in Python
IdSeq == <<"A", "B">>       \* the table ids, in catalog order
Ids == {IdSeq[k] : k \in 1..Len(IdSeq)}
MaybeIds == Ids \cup {NoId}

None == <<>>                \* a file that does not exist
Some(v) == <<v>>

BSeq(S, n) == UNION {[1..k -> S] : k \in 0..n}

\* dag_om.py:384, deletarlinhagem.py:287-290: the stages, in pipeline order
TaskSeq == <<"schemas", "tables", "extract", "delete">>
Tasks == {TaskSeq[k] : k \in 1..Len(TaskSeq)}
TaskIndex(t) == CHOOSE k \in 1..Len(TaskSeq) : TaskSeq[k] = t

UpstreamNone(t) == {}

\* the stages a stage waits for: fetch_schemas_task >> create_table_files_task >> ...
Upstream(t) == IF TaskIndex(t) = 1 THEN {} ELSE {TaskSeq[TaskIndex(t) - 1]}

\* the stage states while stage t runs for the first time
StatusAt(t) ==
    [u \in Tasks |-> IF TaskIndex(u) < TaskIndex(t) THEN "success"
                     ELSE IF u = t THEN "running" ELSE "none"]

EmptyDisk ==
    [schemas |-> None, tables |-> [s \in SchemaNames |-> None],
     lineage |-> None, deletion |-> None]

---------------------------------------------------------------------------
(* Stage-3 artifacts: [{'id': ..., 'linhagem': {...}}, ...] *)

\* qualified names, as character strings
PlainNode == <<"t", "w", "v">>
ViewNode == <<"t", "V", "w">>
NodeNames == {PlainNode, ViewNode}

NoGraph == [nodes |-> <<>>, downstreamEdges |-> <<>>, upstreamEdges |-> <<>>]

\* A stage-3 artifact is drawn as the ids of its items and the flat list of its
\* edges, each edge naming its item, its direction and the entity at its other
\* end; the edges are listed item by item, downstream before upstream.
EdgeSpecs(n) == [item : 1..n, dir : {"down", "up"}, ent : MaybeIds]

EdgeKey(e) == 2 * e.item + (IF e.dir = "up" THEN 1 ELSE 0)

Canonical(es) == \A j, k \in 1..Len(es) : j < k => EdgeKey(es[j]) <= EdgeKey(es[k])

DownOf(es, i) ==
    LET sub == SelectSeq(es, LAMBDA e : e.item = i /\ e.dir = "down")
    IN [j \in 1..Len(sub) |-> [toEntity |-> sub[j].ent, lineageDetails |-> FALSE]]

UpOf(es, i) ==
    LET sub == SelectSeq(es, LAMBDA e : e.item = i /\ e.dir = "up")
    IN [j \in 1..Len(sub) |-> [fromEntity |-> sub[j].ent, lineageDetails |-> FALSE]]

ArtifactOf(ids, es) ==
    [i \in 1..Len(ids) |->
       [id |-> ids[i],
        linhagem |-> [nodes |-> <<PlainNode>>,
                      downstreamEdges |-> DownOf(es, i),
                      upstreamEdges |-> UpOf(es, i)]]]

\* the variables of extract_and_save_lineage while it does not run
ExtractIdle ==
    /\ lineage = NoGraph
    /\ files = <<>>
    /\ fileIdx = 1
    /\ dados_json = <<>>
    /\ itemIdx = 1
    /\ fetches = <<>>

NoCursor == 0               \* no cursor: None, or a page without 'after'

\* the variables of the two collectors while they do not run
CollectIdle ==
    /\ after = NoCursor
    /\ result = <<>>
    /\ databaseSchema_names = <<>>
    /\ schemaIdx = 1
    /\ served = <<>>
    /\ requests = <<>>

---------------------------------------------------------------------------
(* delete_lineage *)

DeleteResponses == {"200", "other", "exception"}

Deleted == "Deletada com sucesso"
Error == "Erro ao deletar"

\* dag_om.py:260-291: never raises; `raised` says whether an exception escapes
exclude_lineage_propagates(from_id, to_id, resp) ==
    [url |-> <<from_id, to_id>>, from_id |-> from_id, to_id |-> to_id,
     status |-> IF resp = "200" THEN Deleted ELSE Error,
     raised |-> resp = "exception"]

exclude_lineage(from_id, to_id, resp) ==
    [url |-> <<from_id, to_id>>, from_id |-> from_id, to_id |-> to_id,
     status |-> IF resp = "200" THEN Deleted ELSE Error,
     raised |-> FALSE]

DownstreamCallReversed(from_id, to_id, resp) == exclude_lineage(to_id, from_id, resp)

\* the call made for a downstream edge
DownstreamCall(from_id, to_id, resp) == exclude_lineage(from_id, to_id, resp)

UpstreamCallUnreversed(from_id, to_id, resp) == exclude_lineage(from_id, to_id, resp)

\* the call made for an upstream edge: the arguments are swapped
UpstreamCall(from_id, to_id, resp) == exclude_lineage(to_id, from_id, resp)

TruthyAlways(id) == TRUE

\* `if from_id and to_id`: None and '' are falsy
Truthy(id) == id # NoId

ShouldDeleteOneOrder(v, from_id, to_id, pairs) ==
    /\ Truthy(from_id)
    /\ Truthy(to_id)
    /\ v = "dag" => <<from_id, to_id>> \notin pairs

\* the `if` that guards a delete call
ShouldDelete(v, from_id, to_id, pairs) ==
    /\ Truthy(from_id)
    /\ Truthy(to_id)
    /\ v = "dag" => (<<from_id, to_id>> \notin pairs /\ <<to_id, from_id>> \notin pairs)

Edges(item, ph) ==
    IF ph = "down" THEN item.linhagem.downstreamEdges ELSE item.linhagem.upstreamEdges

RECURSIVE Normalize(_, _)
\* the loop position of the next edge to visit, <<Len(d) + 1, "down", 1>> at the end
Normalize(d, p) ==
    IF p[1] > Len(d) THEN <<Len(d) + 1, "down", 1>>
    ELSE IF p[3] <= Len(Edges(d[p[1]], p[2])) THEN p
    ELSE IF p[2] = "down" THEN Normalize(d, <<p[1], "up", 1>>)
    ELSE Normalize(d, <<p[1] + 1, "down", 1>>)

AtEndEarly == pos[1] > Len(data) \/ pos[2] = "up"

\* `for item in data` is exhausted
AtEnd == pos[1] > Len(data)

RECURSIVE DeleteTrace(_, _, _, _)
\* dag_om.py:308-343 as a function of the loaded list: the delete calls variant
\* v sends from loop position p on with the set `pairs`, each with the
\* (from_id, to_id) it records; the status of a call changes neither
DeleteTrace(v, d, p, pairs) ==
    IF p[1] > Len(d) THEN <<>>
    ELSE LET item == d[p[1]]
             from_id == item.id
             to_id == IF p[2] = "down"
                      THEN item.linhagem.downstreamEdges[p[3]].toEntity
                      ELSE item.linhagem.upstreamEdges[p[3]].fromEntity
             r == IF p[2] = "down" THEN DownstreamCall(from_id, to_id, "200")
                  ELSE UpstreamCall(from_id, to_id, "200")
             nxt == Normalize(d, <<p[1], p[2], p[3] + 1>>)
         IN IF ShouldDelete(v, from_id, to_id, pairs)
            THEN <<[call |-> r.url, from_id |-> from_id, to_id |-> to_id]>>
                 \o DeleteTrace(v, d, nxt, IF v = "dag" THEN pairs \cup {r.url} ELSE pairs)
            ELSE DeleteTrace(v, d, nxt, pairs)

\* one visit of an edge: the guard, the call (call[resp] is what the call
\* returns when the server answers resp), the append, the add to the set
VisitEdge(from_id, to_id, kind, call, pair) ==
    IF ShouldDelete(variant, from_id, to_id, processed_lineage_pairs)
    THEN \E resp \in DeleteResponses :
           LET r == call[resp] IN
             /\ lastResp' = resp
             /\ calls' = Append(calls, [from |-> r.url[1], to |-> r.url[2],
                                        kind |-> kind, table |-> from_id,
                                        other |-> to_id, item |-> pos[1]])
             /\ IF r.raised
                THEN /\ pc' = "failed"
                     /\ UNCHANGED <<resultados, processed_lineage_pairs, pos>>
                ELSE /\ resultados' = Append(resultados,
                            [from_id |-> from_id, to_id |-> to_id, status |-> r.status])
                     /\ processed_lineage_pairs' =
                            IF variant = "dag"
                            THEN processed_lineage_pairs \cup {pair}
                            ELSE processed_lineage_pairs
                     /\ pos' = Normalize(data, <<pos[1], pos[2], pos[3] + 1>>)
                     /\ UNCHANGED pc
    ELSE /\ pos' = Normalize(data, <<pos[1], pos[2], pos[3] + 1>>)
         /\ UNCHANGED <<pc, resultados, processed_lineage_pairs, calls, lastResp>>

\* dag_om.py:303-306: resultados = [], open the file, json.load
DeleteOpen ==
    /\ stage = "delete" /\ pc = "start"
    /\ resultados' = <<>>
    /\ IF disk[worker].lineage = None
       THEN /\ pc' = "failed"
            /\ UNCHANGED <<data, pos>>
       ELSE /\ data' = disk[worker].lineage[1]
            /\ pos' = Normalize(data', <<1, "down", 1>>)
            /\ pc' = "loop"
    /\ UNCHANGED <<runVars, stage, worker, storeVars, processed_lineage_pairs, calls,
                   prevCalls, lastResp, invocation, extractVars, collectVars>>

\* dag_om.py:313-327
DownstreamEdge ==
    /\ stage = "delete" /\ pc = "loop" /\ ~AtEnd /\ pos[2] = "down"
    /\ LET item == data[pos[1]]
           from_id == item.id
           to_id == item.linhagem.downstreamEdges[pos[3]].toEntity
       IN VisitEdge(from_id, to_id, "down",
                    [resp \in DeleteResponses |-> DownstreamCall(from_id, to_id, resp)],
                    <<from_id, to_id>>)
    /\ UNCHANGED <<runVars, stage, worker, storeVars, data, prevCalls, invocation,
                   extractVars, collectVars>>

\* dag_om.py:329-343
UpstreamEdge ==
    /\ stage = "delete" /\ pc = "loop" /\ ~AtEnd /\ pos[2] = "up"
    /\ LET item == data[pos[1]]
           from_id == item.id
           to_id == item.linhagem.upstreamEdges[pos[3]].fromEntity
       IN VisitEdge(from_id, to_id, "up",
                    [resp \in DeleteResponses |-> UpstreamCall(from_id, to_id, resp)],
                    <<to_id, from_id>>)
    /\ UNCHANGED <<runVars, stage, worker, storeVars, data, prevCalls, invocation,
                   extractVars, collectVars>>

\* dag_om.py:345-354: write the result file; the workflow variant uploads it
DeleteSave ==
    /\ stage = "delete" /\ pc = "loop" /\ AtEnd
    /\ disk' = [disk EXCEPT ![worker].deletion = Some(resultados)]
    /\ gcs' = IF variant = "dag" THEN [gcs EXCEPT !.deletion = Some(resultados)] ELSE gcs
    /\ pc' = "done"
    /\ UNCHANGED <<runVars, stage, worker, deleteVars, resultados, lastResp,
                   extractVars, collectVars>>

---------------------------------------------------------------------------
(* delete_lineage entered again *)

\* a second call of delete_lineage in the process that ran the first: the
\* module-level set of dag_om.py:293 is the one the first call filled
ReinvokeSameProcess ==
    /\ stage = "delete" /\ pc = "done" /\ invocation < MaxInvocations
    /\ pc' = "start"
    /\ invocation' = invocation + 1
    /\ prevCalls' = calls
    /\ calls' = <<>>
    /\ UNCHANGED <<runVars, stage, worker, storeVars, data, pos, resultados,
                   processed_lineage_pairs, lastResp, extractVars, collectVars>>

\* a second run in a new process: the module is imported again, dag_om.py:293
\* runs again
RerunNewProcess ==
    /\ stage = "delete" /\ pc = "done" /\ invocation < MaxInvocations
    /\ pc' = "start"
    /\ invocation' = invocation + 1
    /\ prevCalls' = calls
    /\ calls' = <<>>
    /\ processed_lineage_pairs' = {}
    /\ UNCHANGED <<runVars, stage, worker, storeVars, data, pos, resultados, lastResp,
                   extractVars, collectVars>>

---------------------------------------------------------------------------
(* Specifications *)

\* delete_lineage is about to run on a worker that holds the stage-3 artifact
InitDelete ==
    /\ variant \in Variants
    /\ stage = "delete" /\ pc = "start"
    /\ status = StatusAt(stage) /\ tries = 0
    /\ worker = "w1"
    /\ \E n \in 0..MaxItems, m \in 0..MaxEdges :
       \E ids \in [1..n -> MaybeIds], es \in [1..m -> EdgeSpecs(n)] :
         /\ Canonical(es)
         /\ LET a == ArtifactOf(ids, es) IN
              /\ disk = [w \in Workers |->
                           IF w = "w1" THEN [EmptyDisk EXCEPT !.lineage = Some(a)]
                           ELSE EmptyDisk]
              /\ gcs = IF variant = "dag" THEN [EmptyDisk EXCEPT !.lineage = Some(a)]
                       ELSE EmptyDisk
    /\ data = <<>>
    /\ pos = <<1, "down", 1>>
    /\ resultados = <<>>
    /\ processed_lineage_pairs = {}
    /\ calls = <<>>
    /\ prevCalls = <<>>
    /\ lastResp = "none"
    /\ invocation = 1
    /\ ExtractIdle
    /\ CollectIdle

NextDelete == DeleteOpen \/ DownstreamEdge \/ UpstreamEdge \/ DeleteSave

SpecDelete == InitDelete /\ [][NextDelete]_vars

NextRerun == NextDelete \/ ReinvokeSameProcess \/ RerunNewProcess

SpecRerun == InitDelete /\ [][NextRerun]_vars

---------------------------------------------------------------------------
(* extract_and_save_lineage *)

NoType == "None"            \* item.get('tableType') of a record without the key
TableTypes == {"Regular", "Partitioned", "External", "View", NoType}

LineageResponses == {"200", "other", "exception"}

\* the graphs a lineage lookup can return; a missing 'nodes', 'downstreamEdges'
\* or 'upstreamEdges' key is the empty list, lineageDetails says whether the
\* edge has the key
GraphDown == BSeq([toEntity : {IdSeq[Len(IdSeq)]}, lineageDetails : BOOLEAN], MaxGraphEdges)
GraphUp == BSeq([fromEntity : {IdSeq[Len(IdSeq)]}, lineageDetails : BOOLEAN], MaxGraphEdges)

IsGraph(g) == Len(g.downstreamEdges) + Len(g.upstreamEdges) <= MaxGraphEdges

\* str.lower(), on the letters of the model's names
LowerCase(c) ==
    CASE c = "V" -> "v"
      [] c = "W" -> "w"
      [] c = "T" -> "t"
      [] OTHER -> c

lower(name) == [i \in 1..Len(name) |-> LowerCase(name[i])]

\* 'vw' in fully_qualified_name.lower()
HasVw(name) ==
    \E i \in 1..(Len(name) - 1) : lower(name)[i] = "v" /\ lower(name)[i + 1] = "w"

NotVw(name) == ~HasVw(name)

EligibleAlsoView(t) == t \in {"Regular", "Partitioned", "External", "View"}

\* dag_om.py:233
Eligible(t) == t = "Regular" \/ t = "Partitioned" \/ t = "External"

\* dag_om.py:176-206: the graph, or None; `raised` says whether an exception escapes
get_lineage_by_id_propagates(id, resp, g) ==
    [raised |-> resp = "exception", value |-> IF resp = "200" THEN Some(g) ELSE None]

get_lineage_by_id(id, resp, g) ==
    [raised |-> FALSE, value |-> IF resp = "200" THEN Some(g) ELSE None]

EdgeGateAllEdges(l) ==
    /\ \A j \in 1..Len(l.downstreamEdges) : ~l.downstreamEdges[j].lineageDetails
    /\ \A j \in 1..Len(l.upstreamEdges) : ~l.upstreamEdges[j].lineageDetails

\* dag_om.py:240-241: the tests on the first downstream and first upstream edge
EdgeGate(l) ==
    /\ l.downstreamEdges = <<>> \/ ~l.downstreamEdges[1].lineageDetails
    /\ l.upstreamEdges = <<>> \/ ~l.upstreamEdges[1].lineageDetails

AppendedWithoutNodes(id, linhagem) ==
    IF linhagem # None /\ EdgeGate(linhagem[1])
    THEN <<[id |-> id, linhagem |-> linhagem[1]]>>
    ELSE <<>>

\* dag_om.py:236-245: what the loop over the nodes appends to resultados
Appended(id, linhagem) ==
    IF linhagem # None /\ Len(linhagem[1].nodes) > 0 /\ EdgeGate(linhagem[1])
    THEN [k \in 1..Len(SelectSeq(linhagem[1].nodes, NotVw)) |->
            [id |-> id, linhagem |-> linhagem[1]]]
    ELSE <<>>

\* the objects hook.list returns, in the bucket's (lexical) order
SchemaOrder == <<"s1", "s2">>
Present(s) == gcs.tables[s] # None
Listing == SelectSeq(SchemaOrder, Present)

\* dag_om.py:222-225; deletarlinhagem.py:183-186
ExtractStart ==
    /\ stage = "extract" /\ pc = "start"
    /\ resultados' = <<>>
    /\ fileIdx' = 1
    /\ IF variant = "dag"
       THEN files' = Listing /\ pc' = "file"
       ELSE IF disk[worker].schemas = None
            THEN pc' = "failed" /\ UNCHANGED files
            ELSE files' = disk[worker].schemas[1] /\ pc' = "file"
    /\ UNCHANGED <<runVars, stage, worker, storeVars, deleteVars, lastResp,
                   lineage, dados_json, itemIdx, fetches, collectVars>>

TableFile(name) == IF variant = "dag" THEN gcs.tables[name] ELSE disk[worker].tables[name]

\* dag_om.py:227-230; deletarlinhagem.py:188-190
ExtractOpenFile ==
    /\ stage = "extract" /\ pc = "file" /\ fileIdx <= Len(files)
    /\ LET f == TableFile(files[fileIdx]) IN
         IF f = None
         THEN pc' = "failed" /\ UNCHANGED <<dados_json, itemIdx, fileIdx>>
         ELSE /\ dados_json' = f[1]
              /\ itemIdx' = 1
              /\ IF f[1] = <<>>
                 THEN fileIdx' = fileIdx + 1 /\ UNCHANGED pc
                 ELSE pc' = "item" /\ UNCHANGED fileIdx
    /\ UNCHANGED <<runVars, stage, worker, storeVars, deleteVars, resultados,
                   lastResp, lineage, files, fetches, collectVars>>

\* dag_om.py:232-248: processar_item(item) for the next record of the file
ProcessItem ==
    /\ stage = "extract" /\ pc = "item"
    /\ LET item == dados_json[itemIdx]
           next == IF itemIdx < Len(dados_json)
                   THEN /\ itemIdx' = itemIdx + 1
                        /\ UNCHANGED <<pc, fileIdx>>
                   ELSE /\ pc' = "file"
                        /\ fileIdx' = fileIdx + 1
                        /\ UNCHANGED itemIdx
       IN IF Eligible(item.tableType)
          THEN \E resp \in LineageResponses :
                 LET got == get_lineage_by_id(item.id, resp, lineage) IN
                   /\ lastResp' = resp
                   /\ fetches' = Append(fetches, [id |-> item.id,
                                                  tableType |-> item.tableType,
                                                  resp |-> resp])
                   /\ IF got.raised
                      THEN /\ pc' = "failed"
                           /\ UNCHANGED <<resultados, itemIdx, fileIdx>>
                      ELSE /\ resultados' = resultados \o Appended(item.id, got.value)
                           /\ next
          ELSE /\ next
               /\ UNCHANGED <<resultados, lastResp, fetches>>
    /\ UNCHANGED <<runVars, stage, worker, storeVars, deleteVars, lineage, files,
                   dados_json, collectVars>>

\* dag_om.py:250-258: write the stage-3 file; the workflow variant uploads it
ExtractSave ==
    /\ stage = "extract" /\ pc = "file" /\ fileIdx > Len(files)
    /\ disk' = [disk EXCEPT ![worker].lineage = Some(resultados)]
    /\ gcs' = IF variant = "dag" THEN [gcs EXCEPT !.lineage = Some(resultados)] ELSE gcs
    /\ pc' = "done"
    /\ UNCHANGED <<runVars, stage, worker, deleteVars, resultados, lastResp,
                   extractVars, collectVars>>

\* the variables of delete_lineage before it runs
DeleteIdle ==
    /\ data = <<>>
    /\ pos = <<1, "down", 1>>
    /\ processed_lineage_pairs = {}
    /\ calls = <<>>
    /\ prevCalls = <<>>
    /\ invocation = 0

\* the schema lists: the server lists a schema once
SchemaLists ==
    { l \in BSeq(SchemaNames, Cardinality(SchemaNames)) :
        \A i, j \in 1..Len(l) : i # j => l[i] # l[j] }

\* the table records of the catalog, one id each
TableRecords(ts) == [n \in 1..Len(ts) |-> [id |-> IdSeq[n], tableType |-> ts[n]]]

\* the ways to spread the records over the files of the schemas of l, in order
Placements(l, n) ==
    { a \in [1..n -> 1..Len(l)] : \A i, j \in 1..n : i < j => a[i] <= a[j] }

InFile(recs, a, k) ==
    LET idx == {n \in 1..Len(recs) : a[n] = k}
        RECURSIVE Take(_)
        Take(n) == IF n > Len(recs) THEN <<>>
                   ELSE IF n \in idx THEN <<recs[n]>> \o Take(n + 1)
                   ELSE Take(n + 1)
    IN Take(1)

TableFiles(l, recs, a) ==
    [s \in SchemaNames |->
       IF \E k \in 1..Len(l) : l[k] = s
       THEN Some(InFile(recs, a, CHOOSE k \in 1..Len(l) : l[k] = s))
       ELSE None]

\* extract_and_save_lineage is about to run: the schema list and one table
\* file per schema are where create_table_files left them
InitExtract ==
    /\ variant \in Variants
    /\ stage = "extract" /\ pc = "start"
    /\ status = StatusAt(stage) /\ tries = 0
    /\ worker = "w1"
    /\ lineage \in [nodes : BSeq(NodeNames, MaxNodes),
                     downstreamEdges : GraphDown, upstreamEdges : GraphUp]
    /\ IsGraph(lineage)
    /\ \E l \in SchemaLists :
       \E ts \in BSeq(TableTypes, Len(IdSeq)) :
       \E a \in Placements(l, Len(ts)) :
         LET tabs == TableFiles(l, TableRecords(ts), a) IN
           /\ disk = [w \in Workers |->
                        IF w = "w1"
                        THEN [EmptyDisk EXCEPT
                                !.schemas = Some(l),
                                !.tables = IF variant = "local" THEN tabs ELSE @]
                        ELSE EmptyDisk]
           /\ gcs = IF variant = "dag"
                    THEN [EmptyDisk EXCEPT !.schemas = Some(l), !.tables = tabs]
                    ELSE EmptyDisk
    /\ files = <<>>
    /\ fileIdx = 1
    /\ dados_json = <<>>
    /\ itemIdx = 1
    /\ fetches = <<>>
    /\ resultados = <<>>
    /\ lastResp = "none"
    /\ DeleteIdle
    /\ CollectIdle

NextExtract == ExtractStart \/ ExtractOpenFile \/ ProcessItem \/ ExtractSave

SpecExtract == InitExtract /\ [][NextExtract]_vars

---------------------------------------------------------------------------
(* fetch_schemas and create_table_files *)

\* the sequences without repetition over S
DistinctSeqs(S) ==
    { q \in BSeq(S, Cardinality(S)) : \A i, j \in 1..Len(q) : i # j => q[i] # q[j] }

RawTypes == {"Regular", "View"}

\* the items of a schema page: schemas the server has not listed yet
SchemaItems(avail) ==
    { [k \in 1..Len(q) |-> [fullyQualifiedName |-> q[k]]] : q \in DistinctSeqs(avail) }

\* the items of a table page: tables the server has not listed yet; `columns`
\* stands for the fields of a table that create_table_files does not copy
TableItems(avail) ==
    UNION { { [k \in 1..Len(q) |-> [id |-> q[k], tableType |-> t[k], columns |-> "c"]]
              : t \in [1..Len(q) -> RawTypes] }
            : q \in DistinctSeqs(avail) }

\* What the server can answer to a listing request: a status other than 200 or
\* a network failure; 200 with a falsy body; 200 with a page, with or without
\* 'paging', with or without 'after' (the cursor tok, offered while more).
ListResponses(items, more, tok) ==
    { [status |-> st, body |-> "none", paging |-> FALSE, data |-> <<>>, after |-> NoCursor]
        : st \in {"other", "exception"} }
    \cup { [status |-> "200", body |-> "empty", paging |-> FALSE, data |-> <<>>,
            after |-> NoCursor] }
    \cup { [status |-> "200", body |-> "page", paging |-> FALSE, data |-> d,
            after |-> NoCursor] : d \in items }
    \cup { [status |-> "200", body |-> "page", paging |-> TRUE, data |-> d, after |-> a]
            : d \in items, a \in IF more THEN {NoCursor, tok} ELSE {NoCursor} }

get_data_unchecked(resp) ==
    [raised |-> FALSE, json |-> [resp EXCEPT !.body = "page", !.paging = TRUE]]

\* dag_om.py:26-50: the JSON of a 200, an exception for anything else
get_data(resp) == [raised |-> resp.status # "200", json |-> resp]

\* `not json_data`
Falsy(json) == json.body = "empty"

\* dag_om.py:52-63
extract_fully_qualified_names(json) ==
    [k \in 1..Len(json.data) |-> json.data[k].fullyQualifiedName]

\* dag_om.py:148-156
filtered_data(json) ==
    [k \in 1..Len(json.data) |->
       [id |-> json.data[k].id, tableType |-> json.data[k].tableType]]

HasAfterNever(json) == FALSE

\* 'after' in paging_info
HasAfter(json) == json.after # NoCursor

\* dag_om.py:85-89
FetchSchemasStart ==
    /\ stage = "schemas" /\ pc = "start"
    /\ result' = <<>>
    /\ after' = NoCursor
    /\ served' = <<>>
    /\ pc' = "page"
    /\ UNCHANGED <<runVars, stage, worker, storeVars, deleteVars, resultados, lastResp,
                   extractVars, databaseSchema_names, schemaIdx, requests>>

Listed == {result[k] : k \in 1..Len(result)}

\* dag_om.py:91-100: one turn of the page loop
FetchSchemasPage ==
    /\ stage = "schemas" /\ pc = "page"
    /\ \E resp \in ListResponses(SchemaItems(SchemaNames \ Listed),
                                 Len(served) + 1 < MaxPages, Len(served) + 1) :
         LET got == get_data(resp) IN
           /\ requests' = Append(requests, [url |-> "databaseSchemas", after |-> after])
           /\ served' = Append(served, resp)
           /\ lastResp' = resp.status
           /\ IF got.raised \/ Falsy(got.json)
              THEN pc' = "failed" /\ UNCHANGED <<result, after>>
              ELSE /\ result' = result \o extract_fully_qualified_names(got.json)
                   /\ IF ~got.json.paging
                      THEN pc' = "failed" /\ UNCHANGED after
                      ELSE IF HasAfter(got.json)
                           THEN after' = got.json.after /\ UNCHANGED pc
                           ELSE pc' = "save" /\ UNCHANGED after
    /\ UNCHANGED <<runVars, stage, worker, storeVars, deleteVars, resultados,
                   extractVars, databaseSchema_names, schemaIdx>>

\* dag_om.py:102-113: write schemas.json; the workflow variant uploads it
FetchSchemasSave ==
    /\ stage = "schemas" /\ pc = "save"
    /\ disk' = [disk EXCEPT ![worker].schemas = Some(result)]
    /\ gcs' = IF variant = "dag" THEN [gcs EXCEPT !.schemas = Some(result)] ELSE gcs
    /\ pc' = "done"
    /\ UNCHANGED <<runVars, stage, worker, deleteVars, resultados, lastResp,
                   extractVars, collectVars>>

\* dag_om.py:123-133: the workflow variant downloads schemas.json first
CreateTablesStart ==
    /\ stage = "tables" /\ pc = "start"
    /\ LET src == IF variant = "dag" THEN gcs.schemas ELSE disk[worker].schemas IN
         IF src = None
         THEN /\ pc' = "failed"
              /\ UNCHANGED <<disk, databaseSchema_names>>
         ELSE /\ disk' = [disk EXCEPT ![worker].schemas = src]
              /\ databaseSchema_names' = src[1]
              /\ pc' = IF src[1] = <<>> THEN "done" ELSE "page"
    /\ schemaIdx' = 1
    /\ after' = NoCursor
    /\ result' = <<>>
    /\ served' = <<>>
    /\ UNCHANGED <<runVars, stage, worker, gcs, deleteVars, resultados, lastResp,
                   extractVars, requests>>

\* the table ids the server listed in this run
ListedTables ==
    {result[k].id : k \in 1..Len(result)} \cup
    UNION { IF TableFile(sch) = None THEN {}
            ELSE { TableFile(sch)[1][n].id : n \in 1..Len(TableFile(sch)[1]) }
            : sch \in SchemaNames }

\* dag_om.py:142-163: one turn of the page loop of the schema
CreateTablesPage ==
    /\ stage = "tables" /\ pc = "page"
    /\ \E resp \in ListResponses(TableItems(Ids \ ListedTables),
                                 Len(served) + 1 < MaxPages, Len(served) + 1) :
         LET got == get_data(resp) IN
           /\ requests' = Append(requests, [url |-> databaseSchema_names[schemaIdx],
                                            after |-> after])
           /\ served' = Append(served, resp)
           /\ lastResp' = resp.status
           /\ IF got.raised
              THEN pc' = "failed" /\ UNCHANGED <<result, after>>
              ELSE IF Falsy(got.json)
              THEN pc' = "write" /\ UNCHANGED <<result, after>>
              ELSE /\ result' = result \o filtered_data(got.json)
                   /\ IF got.json.paging /\ HasAfter(got.json)
                      THEN after' = got.json.after /\ UNCHANGED pc
                      ELSE pc' = "write" /\ UNCHANGED after
    /\ UNCHANGED <<runVars, stage, worker, storeVars, deleteVars, resultados,
                   extractVars, databaseSchema_names, schemaIdx>>

\* dag_om.py:165-171 and 137-140: write the table file of the schema, go to the
\* next schema; after the last one, dag_om.py:173-174
CreateTablesWrite ==
    /\ stage = "tables" /\ pc = "write"
    /\ LET name == databaseSchema_names[schemaIdx] IN
         IF variant = "dag"
         THEN gcs' = [gcs EXCEPT !.tables[name] = Some(result)] /\ UNCHANGED disk
         ELSE disk' = [disk EXCEPT ![worker].tables[name] = Some(result)] /\ UNCHANGED gcs
    /\ schemaIdx' = schemaIdx + 1
    /\ after' = NoCursor
    /\ result' = <<>>
    /\ served' = <<>>
    /\ pc' = IF schemaIdx + 1 > Len(databaseSchema_names) THEN "done" ELSE "page"
    /\ UNCHANGED <<runVars, stage, worker, deleteVars, resultados, lastResp,
                   extractVars, databaseSchema_names, requests>>

\* fetch_schemas is about to run, with or without the schema list of an
\* earlier run in place, or create_table_files is, with the schema list where
\* fetch_schemas left it
InitCollect ==
    /\ variant \in Variants
    /\ stage \in {"schemas", "tables"}
    /\ pc = "start"
    /\ status = StatusAt(stage) /\ tries = 0
    /\ worker = "w1"
    /\ \E l \in SchemaLists, have \in BOOLEAN :
         /\ stage = "tables" => have
         /\ ~have => l = <<>>
         /\ LET written == IF have THEN Some(l) ELSE None IN
              /\ disk = [w \in Workers |->
                           IF w = "w1" THEN [EmptyDisk EXCEPT !.schemas = written]
                           ELSE EmptyDisk]
              /\ gcs = IF variant = "dag" THEN [EmptyDisk EXCEPT !.schemas = written]
                       ELSE EmptyDisk
    /\ resultados = <<>>
    /\ lastResp = "none"
    /\ DeleteIdle
    /\ ExtractIdle
    /\ CollectIdle

NextCollect ==
    \/ FetchSchemasStart \/ FetchSchemasPage \/ FetchSchemasSave
    \/ CreateTablesStart \/ CreateTablesPage \/ CreateTablesWrite

SpecCollect == InitCollect /\ [][NextCollect]_vars

---------------------------------------------------------------------------
(* The pipeline: the four stages under the scheduler *)

Retries == 3                \* default_args['retries']

\* The graphs the catalog can hold in a run of the whole pipeline: one of each
\* kind the filter tells apart (all bounded graphs are explored in SpecExtract).
PipelineGraphs ==
    LET other == IdSeq[Len(IdSeq)]
        down(det) == <<[toEntity |-> other, lineageDetails |-> det]>>
        up(det) == <<[fromEntity |-> other, lineageDetails |-> det]>>
    IN { NoGraph,
         [nodes |-> <<PlainNode>>, downstreamEdges |-> down(FALSE), upstreamEdges |-> <<>>],
         [nodes |-> <<PlainNode>>, downstreamEdges |-> down(FALSE), upstreamEdges |-> up(FALSE)],
         [nodes |-> <<PlainNode>>, downstreamEdges |-> down(TRUE), upstreamEdges |-> <<>>],
         [nodes |-> <<ViewNode>>, downstreamEdges |-> <<>>, upstreamEdges |-> up(FALSE)] }

\* the workers a stage can be given: any Airflow worker, or the one machine of
\* the script
Placement == IF variant = "dag" THEN Workers ELSE {worker}

\* The scheduler starts stage t, for the first time or again after a failed
\* attempt: every upstream stage has succeeded.  The callable runs in a new
\* process on the worker it is given.
StartTask(t) ==
    /\ status[t] \in {"none", "up_for_retry"}
    /\ \A u \in Upstream(t) : status[u] = "success"
    /\ status' = [status EXCEPT ![t] = "running"]
    /\ tries' = IF status[t] = "none" THEN 0 ELSE tries
    /\ stage' = t
    /\ pc' = "start"
    /\ worker' \in Placement
    /\ lineage' \in IF t = "extract" THEN PipelineGraphs ELSE {NoGraph}
    /\ data' = <<>>
    /\ pos' = <<1, "down", 1>>
    /\ processed_lineage_pairs' = {}
    /\ calls' = <<>>
    /\ prevCalls' = <<>>
    /\ invocation' = IF t = "delete" THEN 1 ELSE 0
    /\ resultados' = <<>>
    /\ lastResp' = "none"
    /\ files' = <<>>
    /\ fileIdx' = 1
    /\ dados_json' = <<>>
    /\ itemIdx' = 1
    /\ fetches' = <<>>
    /\ after' = NoCursor
    /\ result' = <<>>
    /\ databaseSchema_names' = <<>>
    /\ schemaIdx' = 1
    /\ served' = <<>>
    /\ requests' = <<>>
    /\ UNCHANGED <<variant, storeVars>>

\* The callable of the running stage returned or raised.  The workflow variant
\* retries a failed task (dag_om.py:15); in the script the exception ends the
\* process before the next call of deletarlinhagem.py:287-290.
EndTask ==
    /\ stage \in Tasks
    /\ status[stage] = "running"
    /\ pc \in {"done", "failed"}
    /\ IF pc = "done"
       THEN status' = [status EXCEPT ![stage] = "success"] /\ UNCHANGED tries
       ELSE IF variant = "dag" /\ tries < Retries
            THEN /\ status' = [status EXCEPT ![stage] = "up_for_retry"]
                 /\ tries' = tries + 1
            ELSE /\ status' = [status EXCEPT ![stage] = "failed"]
                 /\ UNCHANGED tries
    /\ UNCHANGED <<variant, stage, pc, worker, storeVars, deleteVars, resultados,
                   lastResp, extractVars, collectVars>>

Init ==
    /\ variant \in Variants
    /\ status = [t \in Tasks |-> "none"]
    /\ tries = 0
    /\ stage = "none" /\ pc = "idle"
    /\ worker = "w1"
    /\ disk = [w \in Workers |-> EmptyDisk]
    /\ gcs = EmptyDisk
    /\ resultados = <<>>
    /\ lastResp = "none"
    /\ DeleteIdle
    /\ ExtractIdle
    /\ CollectIdle

Next ==
    \/ \E t \in Tasks : StartTask(t)
    \/ EndTask
    \/ NextCollect
    \/ NextExtract
    \/ NextDelete

Spec == Init /\ [][Next]_vars

---------------------------------------------------------------------------
(* Claims about delete_lineage *)

Pair(a, b) == {a, b}

\* the artifact store of the variant: the bucket, or the directory of the script
Store == IF variant = "dag" THEN gcs ELSE disk[worker]

\* the edges of the loaded list that have both ids, as <<table id, other id>>
LiveEdges ==
    UNION { { <<data[i].id, data[i].linhagem.downstreamEdges[j].toEntity>> :
                j \in 1..Len(data[i].linhagem.downstreamEdges) } \cup
            { <<data[i].id, data[i].linhagem.upstreamEdges[j].fromEntity>> :
                j \in 1..Len(data[i].linhagem.upstreamEdges) }
            : i \in 1..Len(data) }

\* C1: at most one delete call and at most one deletion result per unordered
\* pair {fromId, toId}, in either variant.
C1_OnePerPair ==
    /\ \A i, j \in 1..Len(calls) :
         i # j => Pair(calls[i].from, calls[i].to) # Pair(calls[j].from, calls[j].to)
    /\ \A i, j \in 1..Len(resultados) :
         i # j => Pair(resultados[i].from_id, resultados[i].to_id)
                    # Pair(resultados[j].from_id, resultados[j].to_id)

\* C4: the delete call for an upstream edge fromEntity = X of table T is
\* ordered (X, T), the call for a downstream edge toEntity = Y is ordered (T, Y).
C4_Direction ==
    \A k \in 1..Len(calls) :
      LET c == calls[k] IN
        /\ c.table = data[c.item].id
        /\ c.kind = "up" =>
             /\ c.from = c.other /\ c.to = c.table
             /\ \E j \in 1..Len(data[c.item].linhagem.upstreamEdges) :
                  data[c.item].linhagem.upstreamEdges[j].fromEntity = c.from
        /\ c.kind = "down" =>
             /\ c.from = c.table /\ c.to = c.other
             /\ \E j \in 1..Len(data[c.item].linhagem.downstreamEdges) :
                  data[c.item].linhagem.downstreamEdges[j].toEntity = c.to

C4_Witness ==
    /\ stage = "delete" /\ pc = "done"
    /\ \E k \in 1..Len(calls) :
         calls[k].kind = "up" /\ calls[k].from # calls[k].to
    /\ \E k \in 1..Len(calls) :
         calls[k].kind = "down" /\ calls[k].from # calls[k].to

\* C7: a failed delete call never ends the stage: every call leaves one result,
\* Deleted for a 200 and Error for anything else, the remaining edges are
\* visited, and the stage ends with the result file written.
C7_DeleteErrorsContained ==
    /\ stage = "delete" => pc # "failed"
    /\ Len(resultados) = Len(calls)
    /\ calls # <<>> =>
         resultados[Len(resultados)].status =
            IF lastResp = "200" THEN Deleted ELSE Error
    /\ (stage = "delete" /\ pc = "done") =>
         /\ pos[1] = Len(data) + 1
         /\ disk[worker].deletion = Some(resultados)
         /\ \A e \in LiveEdges :
              (Truthy(e[1]) /\ Truthy(e[2])) =>
                 \E k \in 1..Len(resultados) :
                    Pair(resultados[k].from_id, resultados[k].to_id) = Pair(e[1], e[2])

C7_Witness ==
    /\ stage = "delete" /\ pc = "done"
    /\ lastResp = "exception"
    /\ Len(resultados) >= 2
    /\ \A k \in 1..Len(resultados) : resultados[k].status = Error
    /\ disk[worker].deletion = Some(resultados)

\* the delete calls and the (from_id, to_id) recorded, of the run so far
RunTrace ==
    [k \in 1..Len(calls) |->
       [call |-> <<calls[k].from, calls[k].to>>,
        from_id |-> resultados[k].from_id, to_id |-> resultados[k].to_id]]

OtherVariant(v) == IF v = "dag" THEN "local" ELSE "dag"

FromStart(d) == Normalize(d, <<1, "down", 1>>)

\* the run of the model is the run DeleteTrace computes for its variant
TraceIsRun ==
    (stage = "delete" /\ pc = "done") =>
       RunTrace = DeleteTrace(variant, data, FromStart(data), {})

\* C14: over the same stage-3 input, delete_lineage of dag_om.py and
\* delete_lineage of deletarlinhagem.py send the same sequence of delete calls
\* and record the same sequence of (from_id, to_id).
C14_VariantsAgree ==
    (stage = "delete" /\ pc = "done") =>
       RunTrace = DeleteTrace(OtherVariant(variant), data, FromStart(data), {})

\* the (from, to) orderings of the delete calls sent so far
CallOrderings == {<<calls[k].from, calls[k].to>> : k \in 1..Len(calls)}

\* the ids of the edge the loop is at: the table's and the other end's
EdgeAt ==
    LET item == data[pos[1]] IN
      <<item.id,
        IF pos[2] = "down" THEN item.linhagem.downstreamEdges[pos[3]].toEntity
        ELSE item.linhagem.upstreamEdges[pos[3]].fromEntity>>

\* an edge is visited: a turn of one of the two inner loops
EdgeVisit == stage = "delete" /\ pc = "loop" /\ pos[1] <= Len(data)

\* C16: in the workflow variant processed_lineage_pairs is at every point the
\* set of (from, to) orderings of the delete calls sent so far: a pair is added
\* only with a delete call and in that call's ordering, nothing is removed, and
\* an edge with both ids is skipped exactly when its pair or the reversed pair
\* is in the set.
C16_SetIsCallOrderings ==
    /\ [](variant = "dag" => processed_lineage_pairs = CallOrderings)
    /\ [][ (variant = "dag" /\ EdgeVisit) =>
             /\ processed_lineage_pairs \subseteq processed_lineage_pairs'
             /\ (Truthy(EdgeAt[1]) /\ Truthy(EdgeAt[2])) =>
                  ( (calls' = calls) <=>
                    ( \/ <<EdgeAt[1], EdgeAt[2]>> \in processed_lineage_pairs
                      \/ <<EdgeAt[2], EdgeAt[1]>> \in processed_lineage_pairs ) )
             /\ calls' # calls =>
                  /\ Len(calls') = Len(calls) + 1
                  /\ processed_lineage_pairs' = processed_lineage_pairs \cup
                        {<<calls'[Len(calls')].from, calls'[Len(calls')].to>>}
             /\ calls' = calls => processed_lineage_pairs' = processed_lineage_pairs
       ]_vars

C16_Witness ==
    /\ variant = "dag" /\ stage = "delete" /\ pc = "done"
    /\ Len(calls) = 1
    /\ calls[1].kind = "up" /\ calls[1].from # calls[1].to
    /\ processed_lineage_pairs = {<<calls[1].from, calls[1].to>>}
    /\ \E e \in LiveEdges : e[1] = calls[1].from /\ e[2] = calls[1].to

\* the directed lineage edges of the loaded list that have both ids: a
\* downstream edge is table -> toEntity, an upstream edge fromEntity -> table
DirectedEdges ==
    UNION { { <<data[i].id, data[i].linhagem.downstreamEdges[j].toEntity>> :
                j \in 1..Len(data[i].linhagem.downstreamEdges) } \cup
            { <<data[i].linhagem.upstreamEdges[j].fromEntity, data[i].id>> :
                j \in 1..Len(data[i].linhagem.upstreamEdges) }
            : i \in 1..Len(data) }

\* C17: when the stage completes, every directed edge u -> v of the input with
\* both ids has had a delete call ordered (u, v); with A -> B and B -> A both
\* present, both directions.
C17_EveryDirectedEdgeDeleted ==
    (stage = "delete" /\ pc = "done") =>
       \A e \in DirectedEdges :
          (e[1] # NoId /\ e[2] # NoId) =>
             \E k \in 1..Len(calls) : calls[k].from = e[1] /\ calls[k].to = e[2]

\* C18: the stage always goes on to its end, and when it completes every edge
\* of the input with both ids has had at least one delete call on its unordered
\* pair and has at least one result for that pair, whatever the earlier calls
\* returned.
C18_EveryPairAttempted ==
    /\ (stage = "delete" /\ pc # "done") => ENABLED NextDelete
    /\ (stage = "delete" /\ pc = "done") =>
         \A e \in LiveEdges :
            (e[1] # NoId /\ e[2] # NoId) =>
               /\ \E k \in 1..Len(calls) :
                    Pair(calls[k].from, calls[k].to) = Pair(e[1], e[2])
               /\ \E k \in 1..Len(resultados) :
                    Pair(resultados[k].from_id, resultados[k].to_id) = Pair(e[1], e[2])

C18_Witness ==
    /\ stage = "delete" /\ pc = "done"
    /\ Len(resultados) = 2
    /\ resultados[1].status = Error /\ resultados[2].status = Deleted
    /\ Pair(resultados[1].from_id, resultados[1].to_id)
         # Pair(resultados[2].from_id, resultados[2].to_id)
    /\ calls[2].kind = "up"

\* C19: an edge whose other end has no id, or whose item has an empty id,
\* causes no delete call, no result and no change of processed_lineage_pairs,
\* and the loop goes on to the next edge.
C19_AbsentIdSkipped ==
    [][ (EdgeVisit /\ (EdgeAt[1] = NoId \/ EdgeAt[2] = NoId)) =>
           /\ UNCHANGED <<calls, resultados, processed_lineage_pairs>>
           /\ pc' = "loop"
           /\ pos' # pos
      ]_vars

C19_Witness ==
    /\ stage = "delete" /\ pc = "done"
    /\ Len(data) = 2
    /\ data[1].id = NoId /\ Len(data[1].linhagem.upstreamEdges) = 1
    /\ data[2].id # NoId /\ Len(data[2].linhagem.downstreamEdges) = 1
    /\ data[2].linhagem.downstreamEdges[1].toEntity # NoId
    /\ Len(calls) = 1 /\ calls[1].item = 2

\* C20: every result is appended with exactly one delete call, in call order;
\* its from_id is the id of the table being processed; for a downstream edge
\* (from_id, to_id) is the ordering of the call, for an upstream edge it is
\* the reverse of that ordering.
C20_ResultPerCall ==
    /\ Len(resultados) = Len(calls)
    /\ \A k \in 1..Len(calls) :
         LET c == calls[k]
             r == resultados[k]
         IN /\ r.from_id = data[c.item].id
            /\ c.kind = "down" => (r.from_id = c.from /\ r.to_id = c.to)
            /\ c.kind = "up" => (r.from_id = c.to /\ r.to_id = c.from)

C20_Witness ==
    /\ stage = "delete" /\ pc = "done"
    /\ Len(calls) = 2
    /\ calls[1].kind = "down" /\ calls[2].kind = "up"
    /\ calls[2].from # calls[2].to
    /\ resultados[2].from_id = calls[2].to
    /\ resultados[1].from_id = calls[1].from /\ calls[1].from # calls[1].to

\* C10: every invocation of delete_lineage starts with the set of processed
\* pairs empty, and a second invocation over the same artifact sends the
\* delete calls the first one sent.
C10_RerunRepeats ==
    /\ (stage = "delete" /\ pc = "start") => processed_lineage_pairs = {}
    /\ (stage = "delete" /\ pc = "done" /\ invocation >= 2) => calls = prevCalls

---------------------------------------------------------------------------
(* Claims about extract_and_save_lineage *)

\* the table records of all the table files the variant reads
InputRecords ==
    UNION { IF TableFile(sch) = None THEN {}
            ELSE { TableFile(sch)[1][n] : n \in 1..Len(TableFile(sch)[1]) }
            : sch \in SchemaNames }

\* how many results carry the table id
ResultsFor(id) == Cardinality({k \in 1..Len(resultados) : resultados[k].id = id})

HasVwNode(g) == \E n \in 1..Len(g.nodes) : HasVw(g.nodes[n])

\* the graph-level filter of the specification
PassesFilter(g) ==
    /\ Len(g.nodes) > 0
    /\ ~HasVwNode(g)
    /\ EdgeGate(g)

\* C2: a lineage graph with a node whose qualified name contains "vw" in any
\* letter case yields no LineageFilterResult for the table.
C2_VwGraphDropped ==
    (stage = "extract" /\ HasVwNode(lineage)) => resultados = <<>>

\* C3: an eligible table whose lookup succeeds and whose graph passes the
\* graph-level filter yields exactly one LineageFilterResult, whatever the
\* number of nodes of the graph.
C3_ExactlyOneResult ==
    (stage = "extract" /\ pc = "done") =>
       \A k \in 1..Len(fetches) :
          (fetches[k].resp = "200" /\ PassesFilter(lineage)) =>
             ResultsFor(fetches[k].id) = 1

\* C6: every LineageFilterResult belongs to a table of type Regular,
\* Partitioned or External; a table of any other type, or of none, has no
\* result and no lineage lookup.
C6_OnlyEligibleTables ==
    stage = "extract" =>
       /\ \A k \in 1..Len(fetches) :
            /\ fetches[k].tableType \in {"Regular", "Partitioned", "External"}
            /\ [id |-> fetches[k].id, tableType |-> fetches[k].tableType] \in InputRecords
       /\ \A k \in 1..Len(resultados) :
            \E r \in InputRecords :
               /\ r.id = resultados[k].id
               /\ r.tableType \in {"Regular", "Partitioned", "External"}
       /\ \A r \in InputRecords :
            r.tableType \notin {"Regular", "Partitioned", "External"} =>
               /\ ResultsFor(r.id) = 0
               /\ \A k \in 1..Len(fetches) : fetches[k].id # r.id

C6_Witness ==
    /\ stage = "extract" /\ pc = "done"
    /\ \E r \in InputRecords : r.tableType = "View"
    /\ \E r \in InputRecords : r.tableType = "External" /\ ResultsFor(r.id) > 0

FirstHasDetails(edges) == edges # <<>> /\ edges[1].lineageDetails

LaterHasDetails(edges) == \E j \in 2..Len(edges) : edges[j].lineageDetails

\* C15: only the first downstream and the first upstream edge gate inclusion.
\* A graph with nodes, none of them "vw", whose first downstream and first
\* upstream edge (where present) lack lineageDetails is kept, whatever the
\* later edges carry; a graph whose first downstream or first upstream edge
\* carries lineageDetails is dropped.
C15_FirstEdgeGates ==
    stage = "extract" =>
       \A k \in 1..Len(fetches) :
          fetches[k].resp = "200" =>
             /\ ( \/ FirstHasDetails(lineage.downstreamEdges)
                  \/ FirstHasDetails(lineage.upstreamEdges) )
                => ResultsFor(fetches[k].id) = 0
             /\ ( /\ Len(lineage.nodes) > 0
                  /\ ~HasVwNode(lineage)
                  /\ ~FirstHasDetails(lineage.downstreamEdges)
                  /\ ~FirstHasDetails(lineage.upstreamEdges) )
                => ResultsFor(fetches[k].id) >= 1

C15_Witness ==
    /\ stage = "extract" /\ pc = "done"
    /\ ~FirstHasDetails(lineage.downstreamEdges)
    /\ LaterHasDetails(lineage.downstreamEdges)
    /\ \E k \in 1..Len(fetches) :
         fetches[k].resp = "200" /\ ResultsFor(fetches[k].id) >= 1

\* the graph has edges, downstream or upstream
HasEdges(g) == g.downstreamEdges # <<>> \/ g.upstreamEdges # <<>>

\* C21: an eligible table whose lookup succeeds with a graph that has no
\* `nodes` field or an empty node list yields no LineageFilterResult, whatever
\* its downstream and upstream edges, and the stage-3 artifact that is written
\* for delete_lineage has no record of the table.
C21_NoNodesNoResult ==
    stage = "extract" =>
       \A k \in 1..Len(fetches) :
          (fetches[k].resp = "200" /\ Len(lineage.nodes) = 0) =>
             /\ ResultsFor(fetches[k].id) = 0
             /\ pc = "done" =>
                  /\ Store.lineage # None
                  /\ \A n \in 1..Len(Store.lineage[1]) :
                       Store.lineage[1][n].id # fetches[k].id

C21_Witness ==
    /\ stage = "extract" /\ pc = "done"
    /\ Len(lineage.nodes) = 0
    /\ HasEdges(lineage)
    /\ ~FirstHasDetails(lineage.downstreamEdges)
    /\ ~FirstHasDetails(lineage.upstreamEdges)
    /\ \E k \in 1..Len(fetches) : fetches[k].resp = "200"
    /\ Store.lineage = Some(<<>>)

\* C9: a lineage lookup that raises or answers a non-success status yields no
\* result for its table and does not end the stage: the later tables are
\* looked up and the stage-3 artifact is written.
C9_FetchFailsSoft ==
    stage = "extract" =>
       /\ pc # "failed"
       /\ \A k \in 1..Len(fetches) :
            fetches[k].resp # "200" => ResultsFor(fetches[k].id) = 0
       /\ pc = "done" =>
            /\ \A r \in InputRecords :
                 Eligible(r.tableType) => \E k \in 1..Len(fetches) : fetches[k].id = r.id
            /\ disk[worker].lineage = Some(resultados)
            /\ variant = "dag" => gcs.lineage = Some(resultados)

C9_Witness ==
    /\ stage = "extract" /\ pc = "done"
    /\ Len(fetches) = 2
    /\ fetches[1].resp = "exception"
    /\ fetches[2].resp = "200"
    /\ ResultsFor(fetches[2].id) > 0
    /\ disk[worker].lineage = Some(resultados)

---------------------------------------------------------------------------
(* Claims about fetch_schemas and create_table_files *)

RECURSIVE ConcatData(_)
\* the items of the pages, in page order and item order
ConcatData(pages) ==
    IF pages = <<>> THEN <<>> ELSE Head(pages).data \o ConcatData(Tail(pages))

\* a successful page with its paging information
ProperPage(r) == r.status = "200" /\ r.body = "page" /\ r.paging

AllProper == \A k \in 1..Len(served) : ProperPage(served[k])

\* the page loop of fetch_schemas, or of the current schema, has ended normally
LoopEnded ==
    \/ stage = "schemas" /\ pc \in {"save", "done"}
    \/ stage = "tables" /\ pc = "write"

LoopUrl == IF stage = "schemas" THEN "databaseSchemas" ELSE databaseSchema_names[schemaIdx]

LoopRequests == SelectSeq(requests, LAMBDA r : r.url = LoopUrl)

\* `result` is the concatenation of the items of the pages served
ResultIsConcat ==
    LET items == ConcatData(served) IN
      /\ Len(result) = Len(items)
      /\ \A k \in 1..Len(items) :
           IF stage = "schemas"
           THEN result[k] = items[k].fullyQualifiedName
           ELSE result[k].id = items[k].id /\ result[k].tableType = items[k].tableType

\* C5: when the server sends N successful pages of which all but the last
\* carry an `after` cursor, the page loop of fetch_schemas, and of
\* create_table_files for a schema, makes exactly N requests, each with the
\* cursor of the page before, and ends with the concatenation of the items of
\* the N pages, in page order and item order.
C5_PaginationExact ==
    /\ (stage \in {"schemas", "tables"} /\ pc = "page") =>
          /\ \A k \in 1..Len(served) : ProperPage(served[k]) /\ served[k].after # NoCursor
          /\ Len(LoopRequests) = Len(served)
          /\ ResultIsConcat
    /\ (LoopEnded /\ AllProper) =>
          /\ Len(served) >= 1
          /\ \A k \in 1..(Len(served) - 1) : served[k].after # NoCursor
          /\ served[Len(served)].after = NoCursor
          /\ Len(LoopRequests) = Len(served)
          /\ \A k \in 1..Len(served) :
               LoopRequests[k].after = IF k = 1 THEN NoCursor ELSE served[k - 1].after
          /\ ResultIsConcat

C5_Witness ==
    /\ stage = "tables" /\ pc = "write"
    /\ schemaIdx = 2
    /\ AllProper
    /\ Len(served) = 2
    /\ Len(served[1].data) = 1 /\ Len(served[2].data) = 1
    /\ Len(result) = 2

\* C13: a page request of fetch_schemas that does not return 200 ends the
\* stage with an error, whatever was listed before it, and the failed run
\* neither writes nor replaces the schema-list artifact.
C13_SchemaFailureWritesNothing ==
    [][ ( /\ stage = "schemas"
          /\ \/ pc = "failed"
             \/ /\ Len(served') = Len(served) + 1
                /\ served'[Len(served')].status # "200" )
        => (stage' = stage /\ pc' = "failed" /\ UNCHANGED storeVars) ]_vars

C13_Witness ==
    /\ stage = "schemas" /\ pc = "failed"
    /\ Len(served) = 2
    /\ served[1].status = "200" /\ served[2].status = "other"
    /\ result # <<>>
    /\ Store.schemas # None /\ Store.schemas # Some(result)

Written(name) ==
    IF variant = "dag" THEN gcs.tables[name] # None ELSE disk[worker].tables[name] # None

\* C8: in create_table_files a transport error while one schema is paginated
\* does not keep the other schemas of the list from being paginated and from
\* having their table file written.
C8_OtherSchemasCollected ==
    (stage = "tables" /\ pc \in {"done", "failed"}) =>
       \A k \in 1..Len(databaseSchema_names) :
          (pc = "failed" /\ k = schemaIdx)
          \/ /\ Written(databaseSchema_names[k])
             /\ \E n \in 1..Len(requests) : requests[n].url = databaseSchema_names[k]

---------------------------------------------------------------------------
(* Claims about the pipeline *)

\* the position of a stage in SchemaCollector, TableCollector, LineageExtractor,
\* LineageDeleter
StageNumber(t) ==
    CASE t = "schemas" -> 1
      [] t = "tables" -> 2
      [] t = "extract" -> 3
      [] t = "delete" -> 4

\* the artifact of a stage is in the store, whole
ArtifactWritten(t) ==
    CASE t = "schemas" -> Store.schemas # None
      [] t = "tables" ->
           /\ Store.schemas # None
           /\ \A k \in 1..Len(Store.schemas[1]) : Store.tables[Store.schemas[1][k]] # None
      [] t = "extract" -> Store.lineage # None
      [] t = "delete" -> Store.deletion # None

\* C11: the stages run in the order SchemaCollector, TableCollector,
\* LineageExtractor, LineageDeleter without overlap: a stage is started only
\* when every earlier stage has succeeded and its artifact is written, at most
\* one stage runs, and after a failed stage no later stage is ever started.
C11_StrictOrder ==
    /\ Cardinality({t \in Tasks : status[t] = "running"}) <= 1
    /\ stage \in Tasks => status[stage] # "none"
    /\ \A t, u \in Tasks :
         (status[t] # "none" /\ StageNumber(u) < StageNumber(t)) =>
            status[u] = "success" /\ ArtifactWritten(u)
    /\ \A t, u \in Tasks :
         (status[t] \in {"failed", "up_for_retry"} /\ StageNumber(t) < StageNumber(u)) =>
            status[u] = "none"

C11_Witness ==
    /\ variant = "dag"
    /\ \A t \in Tasks : status[t] = "success"
    /\ Len(resultados) >= 1
    /\ gcs.deletion = Some(resultados)

\* C12: the list delete_lineage processes is the one the stage before it
\* persisted in the artifact store; in the workflow variant that is so on
\* whichever worker the task is given.
C12_DeleterReadsPersisted ==
    stage = "delete" =>
       /\ pc # "failed"
       /\ pc \in {"loop", "done"} =>
            /\ Store.lineage # None
            /\ data = Store.lineage[1]

=============================================================================
